---- MODULE Spec2Model ----
(***************************************************************************)
(* Feed health monitor (scripts/check_feeds.py): the driver main() walks   *)
(* the sorted feed files, check_feed() turns each file into                *)
(* (ok, warnings, errors), the driver classifies, prints and exits.        *)
(*                                                                         *)
(* Time is counted in units of 1/UnitsPerDay day, so that an age can lie   *)
(* strictly between two whole numbers of days.                             *)
(*                                                                         *)
(* stdout is kept by kind of line: the messages of the setup checks, the   *)
(* header, one status line per feed, the summary. The lines that repeat a  *)
(* feed's warnings and errors, and the --verbose detail lines, print what  *)
(* warnings, errors, items and newest_date already hold.                   *)
(***************************************************************************)
EXTENDS Integers, Sequences, FiniteSets, TLC

\* ------------------------------------------------------------- bounds
MaxFeeds == 2
MaxItems == 2
UnitsPerDay == 2

\* ---------------------------------------------------- program constants
STALE_DAYS == 30

\* ------------------------------------------------------ optional values
\* Python's None and a present value, as sequences of length 0 and 1.
None == <<>>
Some(x) == <<x>>

\* ---------------------------------------------------------------- text
\* A string is surrounding whitespace (pad) around a body: nothing
\* ("empty"), text that is no date ("word"), or an RFC 2822 date-time
\* ("date") naming the instant t with zone tz.
Str(pad, kind, t, tz) == [pad |-> pad, kind |-> kind, t |-> t, tz |-> tz]
EmptyStr == Str(FALSE, "empty", 0, "")
BlankStr == Str(TRUE, "empty", 0, "")
WordStr == Str(TRUE, "word", 0, "")
DateStr(t, tz) == Str(FALSE, "date", t, tz)

\* str.strip()
Strip(s) == [s EXCEPT !.pad = FALSE]
\* truth value of a str: false only for ""
Truthy(s) == s # EmptyStr

\* An element of the tree: its text is None or a string.
Elem(text) == [text |-> text]
\* (x.text or "")
TextOr(e) == IF e.text = None \/ ~Truthy(e.text[1]) THEN EmptyStr ELSE e.text[1]
\* Variant: the text is tested without being trimmed.
IsMissingUntrimmed(x) == x = None \/ ~Truthy(TextOr(x[1]))
\* x is None or not (x.text or "").strip(), for x the result of item.find
IsMissing(x) == x = None \/ ~Truthy(Strip(TextOr(x[1])))

\* ----------------------------------------------------------- date-times
DateTime(t, aware) == [t |-> t, aware |-> aware]

\* email.utils.parsedate_to_datetime: raises on text that is no date; a
\* date without zone information ("-0000") gives a naive datetime, any
\* other zone an aware one.
ParseRaises(s) == s.kind # "date"
parsedate_to_datetime(s) == DateTime(s.t, s.tz # "-0000")

\* dt > newest_date raises TypeError when one side is naive and the other
\* aware; otherwise it compares the two instants.
CompareRaises(a, b) == a.aware # b.aware
\* now - newest_date, now being aware: raises TypeError on a naive date.
SubtractRaises(a, d) == a.aware # d.aware
Subtract(a, d) == a.t - d.t
\* timedelta(days=n)
timedelta_days(n) == n * UnitsPerDay
\* timedelta.days: whole days, rounded towards minus infinity
Days(age) == age \div UnitsPerDay
\* strftime('%Y-%m-%d'): the calendar day of the instant
FormatDay(d) == d.t \div UnitsPerDay

\* ------------------------------------------------------------- messages
\* A finding: the fixed text with the numbers formatted into it.
Msg(text, a, b) == [text |-> text, a |-> a, b |-> b]
InvalidXml == Msg("Invalid XML: <parser message>", 0, 0)
NoItems == Msg("No <item> entries found", 0, 0)
MissingTitle(k, n) == Msg("k/n entries missing title", k, n)
MissingLink(k, n) == Msg("k/n entries missing link", k, n)
MissingDate(k, n) == Msg("k/n entries missing pubDate", k, n)
Stale(days, day) == Msg("Stale: newest entry is <days> days old (<day>)", days, day)

\* --------------------------------------------------------------- inputs
\* Clock readings: exactly 30 days after day 55, one unit later, and day 100
\* (45 days after day 55, 40 after day 60, 10 after day 90).
NowInstants == {85 * UnitsPerDay, 85 * UnitsPerDay + 1, 100 * UnitsPerDay}

\* The forms a field takes: no element, an element without text, whitespace,
\* padded text.
Absent == None
NoText == Some(Elem(None))
Blank == Some(Elem(Some(BlankStr)))
Word == Some(Elem(Some(WordStr)))
DateElem(t, tz) == Some(Elem(Some(DateStr(t, tz))))

\* <title> and <link> of an item: both present, either or both lacking.
TitleLinks ==
    {<<Word, Word>>, <<Absent, Word>>, <<Word, Absent>>, <<Word, NoText>>, <<Blank, Absent>>}
\* <pubDate>: no text, text that is no date, aware dates of day 55 and 90,
\* a date of day 60 without zone information.
PubDateElems ==
    {NoText, Word,
     DateElem(55 * UnitsPerDay, "+0000"), DateElem(90 * UnitsPerDay, "+0000"),
     DateElem(60 * UnitsPerDay, "-0000")}
Items ==
    {[title |-> tl[1], link |-> tl[2], pubDate |-> d] : tl \in TitleLinks, d \in PubDateElems}
ItemLists == UNION {[1..n -> Items] : n \in 0..MaxItems}

\* What ET.parse does with a file: a tree, ParseError on malformed XML,
\* LookupError on an unknown declared encoding, OSError on an unreadable file.
ParseOutcomes == {"parsed", "ParseError", "LookupError", "OSError"}

\* ---------------------------------------------------------------- state
VARIABLES
    dir_exists,      \* the file system: whether FEEDS_DIR exists
    nfiles,          \* the file system: how many files match feed_*.xml
    pc,              \* position of main(): start, glob, loop, find, fresh, classify, exited
    out,             \* lines printed on stdout, by kind
    exit_code,       \* None while running, Some(code) once the process ended
    exc,             \* None, or Some(name) of the uncaught exception that ended the run
    total, idx,      \* len(feeds) and the number of feeds the loop has finished
    healthy, warn_count, error_count,
    ok, warnings, errors,
    items, missing_titles, missing_links, missing_dates, newest_date, now

vars == <<dir_exists, nfiles, pc, out, exit_code, exc, total, idx, healthy, warn_count, error_count,
          ok, warnings, errors,
          items, missing_titles, missing_links, missing_dates, newest_date, now>>

env == <<dir_exists, nfiles>>
driver == <<total, idx, healthy, warn_count, error_count>>
result == <<ok, warnings, errors>>
tallies == <<items, missing_titles, missing_links, missing_dates, newest_date>>
locals == <<tallies, now>>

Init ==
    /\ dir_exists \in BOOLEAN
    /\ nfiles \in 0..MaxFeeds
    /\ ~dir_exists => nfiles = 0
    /\ pc = "start"
    /\ out = <<>>
    /\ exit_code = None
    /\ exc = None
    /\ total = 0 /\ idx = 0
    /\ healthy = 0 /\ warn_count = 0 /\ error_count = 0
    /\ ok = FALSE /\ warnings = <<>> /\ errors = <<>>
    /\ items = <<>>
    /\ missing_titles = 0 /\ missing_links = 0 /\ missing_dates = 0
    /\ newest_date = None
    /\ now = None

\* sys.exit(code)
Exit(code) ==
    /\ pc' = "exited"
    /\ exit_code' = Some(code)
    /\ exc' = None

\* An exception nothing catches: traceback, exit status 1.
Uncaught(name) ==
    /\ pc' = "exited"
    /\ exit_code' = Some(1)
    /\ exc' = Some(name)

\* ----------------------------------------------------------- check_feed
\* One pass of the loop body over an item, on the tallies so far.
ScanItem(acc, item) ==
    LET mt == IF IsMissing(item.title) THEN acc.missing_titles + 1 ELSE acc.missing_titles
        ml == IF IsMissing(item.link) THEN acc.missing_links + 1 ELSE acc.missing_links
        text == Strip(item.pubDate[1].text[1])
        dt == parsedate_to_datetime(text)
    IN  IF IsMissing(item.pubDate)
        THEN [missing_titles |-> mt, missing_links |-> ml,
              missing_dates |-> acc.missing_dates + 1, newest_date |-> acc.newest_date]
        ELSE [missing_titles |-> mt, missing_links |-> ml,
              missing_dates |-> acc.missing_dates,
              newest_date |->
                  IF ParseRaises(text) THEN acc.newest_date
                  ELSE IF acc.newest_date = None THEN Some(dt)
                  ELSE IF CompareRaises(dt, acc.newest_date[1]) THEN acc.newest_date
                  ELSE IF dt.t > acc.newest_date[1].t THEN Some(dt)
                  ELSE acc.newest_date]

\* for item in items: ...
RECURSIVE ScanFrom(_, _, _)
ScanFrom(its, i, acc) ==
    IF i > Len(its) THEN acc ELSE ScanFrom(its, i + 1, ScanItem(acc, its[i]))

Scan(its) ==
    ScanFrom(its, 1, [missing_titles |-> 0, missing_links |-> 0,
                      missing_dates |-> 0, newest_date |-> None])

\* The findings appended after the scan.
TitleFinding(k, n) == IF k # 0 THEN <<MissingTitle(k, n)>> ELSE <<>>
LinkFinding(k, n) == IF k # 0 THEN <<MissingLink(k, n)>> ELSE <<>>
DateFinding(k, n) == IF k # 0 THEN <<MissingDate(k, n)>> ELSE <<>>

\* age > timedelta(days=STALE_DAYS)
IsStale(age) == age > timedelta_days(STALE_DAYS)
StaleFinding(a, d) ==
    IF IsStale(Subtract(a, d)) THEN <<Stale(Days(Subtract(a, d)), FormatDay(d))>> ELSE <<>>

\* Variant: one error is tolerated.
OkOfLenient(errs) == Len(errs) <= 1
\* ok = len(errors) == 0
OkOf(errs) == Len(errs) = 0

\* ----------------------------------------------------------------- main
\* if not FEEDS_DIR.exists(): print, exit 1
CheckDir ==
    /\ pc = "start"
    /\ IF dir_exists
       THEN /\ pc' = "glob"
            /\ UNCHANGED <<out, exit_code, exc>>
       ELSE /\ out' = Append(out, "Feeds directory not found")
            /\ Exit(1)
    /\ UNCHANGED <<env, driver, result, locals>>

\* Variant: an empty list of feeds is not rejected.
GlobUnguarded ==
    /\ pc = "glob"
    /\ total' = nfiles
    /\ idx' = 0
    /\ healthy' = 0 /\ warn_count' = 0 /\ error_count' = 0
    /\ out' = Append(out, "Checking <total> feeds")
    /\ pc' = "loop"
    /\ UNCHANGED <<env, exit_code, exc, result, locals>>

\* feeds = sorted(glob); if not feeds: print, exit 1; counters; header
Glob ==
    /\ pc = "glob"
    /\ IF nfiles = 0
       THEN /\ out' = Append(out, "No feed files found.")
            /\ Exit(1)
            /\ UNCHANGED driver
       ELSE /\ total' = nfiles
            /\ idx' = 0
            /\ healthy' = 0 /\ warn_count' = 0 /\ error_count' = 0
            /\ out' = Append(out, "Checking <total> feeds")
            /\ pc' = "loop"
            /\ UNCHANGED <<exit_code, exc>>
    /\ UNCHANGED <<env, result, locals>>

\* The loop takes the next feed and calls check_feed: a new frame (its
\* locals unbound), which parses the file.
ParseXML ==
    /\ pc = "loop"
    /\ idx < total
    /\ now' = None
    /\ \E outcome \in ParseOutcomes :
          CASE outcome = "parsed" ->
                  /\ warnings' = <<>> /\ errors' = <<>>
                  /\ pc' = "find"
                  /\ UNCHANGED <<ok, exit_code, exc>>
            [] outcome = "ParseError" ->
                  /\ ok' = FALSE /\ warnings' = <<>> /\ errors' = <<InvalidXml>>
                  /\ pc' = "classify"
                  /\ UNCHANGED <<exit_code, exc>>
            [] OTHER ->
                  /\ Uncaught(outcome)
                  /\ UNCHANGED result
    /\ UNCHANGED <<env, out, driver, tallies>>

\* Variant: the error for an empty feed is recorded without returning.
ScanItemsFallThrough ==
    /\ pc = "find"
    /\ \E its \in ItemLists :
          LET acc == Scan(its)
              n == Len(its)
          IN  /\ items' = its
              /\ missing_titles' = acc.missing_titles
              /\ missing_links' = acc.missing_links
              /\ missing_dates' = acc.missing_dates
              /\ newest_date' = acc.newest_date
              /\ warnings' = warnings \o TitleFinding(acc.missing_titles, n)
                                      \o DateFinding(acc.missing_dates, n)
              /\ errors' = (IF n = 0 THEN Append(errors, NoItems) ELSE errors)
                               \o LinkFinding(acc.missing_links, n)
              /\ pc' = "fresh"
              /\ UNCHANGED ok
    /\ UNCHANGED <<env, out, exit_code, exc, driver, now>>

\* items = root.findall(".//item"); the early return, or the scan of the
\* items and the findings on missing fields.
ScanItems ==
    /\ pc = "find"
    /\ \E its \in ItemLists :
          IF Len(its) = 0
          THEN /\ ok' = FALSE /\ errors' = Append(errors, NoItems)
               /\ pc' = "classify"
               /\ UNCHANGED <<warnings, tallies>>
          ELSE LET acc == Scan(its)
                   n == Len(its)
               IN  /\ items' = its
                   /\ missing_titles' = acc.missing_titles
                   /\ missing_links' = acc.missing_links
                   /\ missing_dates' = acc.missing_dates
                   /\ newest_date' = acc.newest_date
                   /\ warnings' = warnings \o TitleFinding(acc.missing_titles, n)
                                           \o DateFinding(acc.missing_dates, n)
                   /\ errors' = errors \o LinkFinding(acc.missing_links, n)
                   /\ pc' = "fresh"
                   /\ UNCHANGED ok
    /\ UNCHANGED <<env, out, exit_code, exc, driver, now>>

\* The freshness check and the return of (ok, warnings, errors). The clock
\* is read only when a newest date was determined.
Freshness ==
    /\ pc = "fresh"
    /\ IF newest_date = None
       THEN /\ UNCHANGED <<warnings, now, exit_code, exc>>
            /\ ok' = OkOf(errors)
            /\ items' = <<>>
            /\ missing_titles' = 0 /\ missing_links' = 0 /\ missing_dates' = 0
            /\ newest_date' = None
            /\ pc' = "classify"
       ELSE \E t \in NowInstants :
              /\ now' = Some(DateTime(t, TRUE))
              /\ IF SubtractRaises(now'[1], newest_date[1])
                 THEN /\ Uncaught("TypeError")
                      /\ UNCHANGED <<ok, warnings, tallies>>
                 ELSE /\ warnings' = warnings \o StaleFinding(now'[1], newest_date[1])
                      /\ ok' = OkOf(errors)
                      /\ items' = <<>>
                      /\ missing_titles' = 0 /\ missing_links' = 0 /\ missing_dates' = 0
                      /\ newest_date' = None
                      /\ pc' = "classify"
                      /\ UNCHANGED <<exit_code, exc>>
    /\ UNCHANGED <<env, out, driver, errors>>

\* Variant: a failed feed with warnings is counted as a warning too.
ClassifyBoth ==
    /\ pc = "classify"
    /\ IF ok /\ Len(warnings) = 0
       THEN /\ healthy' = healthy + 1
            /\ out' = Append(out, "[OK  ]")
            /\ UNCHANGED <<warn_count, error_count>>
       ELSE IF ok /\ Len(warnings) # 0
       THEN /\ warn_count' = warn_count + 1
            /\ out' = Append(out, "[WARN]")
            /\ UNCHANGED <<healthy, error_count>>
       ELSE /\ error_count' = error_count + 1
            /\ warn_count' = IF Len(warnings) # 0 THEN warn_count + 1 ELSE warn_count
            /\ out' = Append(out, "[FAIL]")
            /\ UNCHANGED healthy
    /\ idx' = idx + 1
    /\ pc' = "loop"
    /\ UNCHANGED <<env, total, exit_code, exc, result, locals>>

\* The status of the feed just checked, its counter and its status line.
Classify ==
    /\ pc = "classify"
    /\ IF ok /\ Len(warnings) = 0
       THEN /\ healthy' = healthy + 1
            /\ out' = Append(out, "[OK  ]")
            /\ UNCHANGED <<warn_count, error_count>>
       ELSE IF ok /\ Len(warnings) # 0
       THEN /\ warn_count' = warn_count + 1
            /\ out' = Append(out, "[WARN]")
            /\ UNCHANGED <<healthy, error_count>>
       ELSE /\ error_count' = error_count + 1
            /\ out' = Append(out, "[FAIL]")
            /\ UNCHANGED <<healthy, warn_count>>
    /\ idx' = idx + 1
    /\ pc' = "loop"
    /\ UNCHANGED <<env, total, exit_code, exc, result, locals>>

\* The summary block and sys.exit(1 if error_count else 0).
Summary ==
    /\ pc = "loop"
    /\ idx = total
    /\ out' = Append(out, "--- Summary ---")
    /\ Exit(IF error_count # 0 THEN 1 ELSE 0)
    /\ UNCHANGED <<env, driver, result, locals>>

Next ==
    \/ CheckDir
    \/ Glob
    \/ ParseXML
    \/ ScanItems
    \/ Freshness
    \/ Classify
    \/ Summary

Spec == Init /\ [][Next]_vars

\* =============================================================== claims
\* A field lacks when its element is absent or its text is empty after
\* trimming.
Lacks(x) == x = None \/ x[1].text = None \/ x[1].text[1].kind = "empty"
CountLacking(its, field) == Cardinality({i \in 1..Len(its) : Lacks(its[i][field])})
\* The instants of the publication dates that parse.
ParsedInstants(its) ==
    {its[i].pubDate[1].text[1].t :
        i \in {j \in 1..Len(its) :
                  ~Lacks(its[j].pubDate) /\ its[j].pubDate[1].text[1].kind = "date"}}
SetMax(S) == CHOOSE m \in S : \A x \in S : x <= m
Count(seq, x) == Cardinality({i \in 1..Len(seq) : seq[i] = x})
IsStaleMsg(m) == m.text = Stale(0, 0).text
SummaryPrinted == Count(out, "--- Summary ---") = 1
\* The run got past the setup checks.
FeedsFound == dir_exists /\ nfiles > 0

\* C1: wherever check_feed returns (parse failure, no items, normal
\* completion), ok is true exactly when the error list is empty.
OkIffNoErrors == pc = "classify" => (ok <=> errors = <<>>)
\* C1 witness: a feed returned ok with warnings.
OkWithWarnings == pc = "classify" /\ ok /\ errors = <<>> /\ Len(warnings) = 2

\* C2: once the process has ended, its exit code is 0 exactly when
\* error_count is 0, and error_count is 0 exactly when no feed failed.
ExitZeroIffNoErrorCount ==
    (pc = "exited" /\ FeedsFound) =>
        /\ (exit_code = Some(0)) <=> (error_count = 0)
        /\ (error_count = 0) <=> (Count(out, "[FAIL]") = 0)

\* C3: every feed checked counts in exactly one of healthy, warn_count and
\* error_count, the one its (ok, warnings) selects; the three add up to the
\* number of feeds processed, and to total once the summary is printed.
StatusOf(o, w) == IF ~o THEN "[FAIL]" ELSE IF w # <<>> THEN "[WARN]" ELSE "[OK  ]"
CountersPartition ==
    /\ healthy + warn_count + error_count = idx
    /\ healthy = Count(out, "[OK  ]")
    /\ warn_count = Count(out, "[WARN]")
    /\ error_count = Count(out, "[FAIL]")
    /\ (pc = "loop" /\ idx > 0) => out[Len(out)] = StatusOf(ok, warnings)
    /\ SummaryPrinted => healthy + warn_count + error_count = total
\* C3 witness: a run that ended with one healthy feed and one failed feed
\* that also had warnings.
HealthyAndFailedWithWarnings ==
    /\ pc = "exited" /\ SummaryPrinted
    /\ healthy = 1 /\ error_count = 1 /\ ~ok /\ warnings # <<>>

\* C4: a run over feed files ends only through the exit-status step, after
\* every file was checked and the summary printed.
EveryFailureCaught ==
    (pc = "exited" /\ FeedsFound) => (exc = None /\ idx = total /\ SummaryPrinted)

\* C5 as stated: the early exit on zero items returns the single error
\* "No entries found".
NoEntriesFound == Msg("No entries found", 0, 0)
EarlyExitsAsStated ==
    [][(pc = "find" /\ pc' = "classify") =>
          (ok' = FALSE /\ warnings' = <<>> /\ errors' = <<NoEntriesFound>>)]_vars
\* C5 amended: both early exits return ok = false, no warning and exactly
\* one error (the parse failure, or "No <item> entries found") and touch no
\* tally; the later checks run on a non-empty item list only.
EarlyExits ==
    /\ [](pc = "fresh" => Len(items) > 0)
    /\ [][(pc = "loop" /\ pc' = "classify") =>
             (ok' = FALSE /\ warnings' = <<>> /\ errors' = <<InvalidXml>>
                /\ UNCHANGED tallies)]_vars
    /\ [][(pc = "find" /\ pc' = "classify") =>
             (ok' = FALSE /\ warnings' = <<>> /\ errors' = <<NoItems>>
                /\ UNCHANGED tallies)]_vars
\* C5 witness: a feed without items was returned.
EmptyFeedReturned ==
    pc = "classify" /\ ~ok /\ warnings = <<>> /\ errors = <<NoItems>> /\ items = <<>>

\* C6: after the scan of N >= 1 items of which L, T, D lack link, title,
\* pubDate, the errors are the one link finding when L > 0 and none
\* otherwise, the warnings the title finding when T > 0 and the pubDate
\* finding when D > 0; the return adds nothing but staleness, as a warning,
\* and ok = (L = 0).
FieldFindings ==
    /\ [](pc = "fresh" =>
            LET N == Len(items)
                L == CountLacking(items, "link")
                T == CountLacking(items, "title")
                D == CountLacking(items, "pubDate")
            IN  /\ N >= 1
                /\ errors = IF L > 0 THEN <<MissingLink(L, N)>> ELSE <<>>
                /\ warnings = (IF T > 0 THEN <<MissingTitle(T, N)>> ELSE <<>>)
                                 \o (IF D > 0 THEN <<MissingDate(D, N)>> ELSE <<>>))
    /\ [][(pc = "fresh" /\ pc' = "classify") =>
             /\ errors' = errors
             /\ ok' = (CountLacking(items, "link") = 0)
             /\ \/ warnings' = warnings
                \/ /\ Len(warnings') = Len(warnings) + 1
                   /\ SubSeq(warnings', 1, Len(warnings)) = warnings
                   /\ IsStaleMsg(warnings'[Len(warnings')])]_vars
\* C6 witness: two items, both lacking a title, one a link, one a pubDate.
TwoItemsLackingFields ==
    /\ pc = "fresh" /\ Len(items) = 2
    /\ CountLacking(items, "title") = 2
    /\ CountLacking(items, "link") = 1
    /\ CountLacking(items, "pubDate") = 1
    /\ errors = <<MissingLink(1, 2)>>
    /\ warnings = <<MissingTitle(2, 2), MissingDate(1, 2)>>

\* C7: leaving the freshness step, a feed whose newest date was determined
\* has gained exactly one Stale warning, with the age in whole days, if the
\* clock is more than STALE_DAYS days past that date, and nothing otherwise;
\* a feed without a newest date has gained nothing.
StaleIffOlderThanThreshold ==
    [][(pc = "fresh" /\ pc' # "fresh") =>
          IF newest_date = None
          THEN warnings' = warnings
          ELSE LET age == now'[1].t - newest_date[1].t
               IN  warnings' =
                      warnings \o
                        (IF age > STALE_DAYS * UnitsPerDay
                         THEN <<Stale(age \div UnitsPerDay, newest_date[1].t \div UnitsPerDay)>>
                         ELSE <<>>)]_vars

\* C8: the freshness step never ends the run: with a newest date
\* determined, aware or not, check_feed returns.
FreshnessNeverRaises == (pc = "exited" /\ newest_date # None) => exc = None

\* C9: with the feeds directory missing, or holding no feed file, the run
\* prints its one message and exits with code 1; it never enters the loop,
\* prints no status line and no summary, and never calls check_feed.
SetupErrorsEndRun ==
    ~FeedsFound =>
        /\ pc \in {"start", "glob", "exited"}
        /\ pc = "exited" =>
              /\ exit_code = Some(1) /\ exc = None
              /\ out = <<IF dir_exists THEN "No feed files found."
                                        ELSE "Feeds directory not found">>
        /\ pc # "exited" => out = <<>>
        /\ idx = 0 /\ errors = <<>> /\ warnings = <<>> /\ items = <<>>
\* C9 witness: the directory exists, no file matches, the run has ended.
NoFeedFilesExit == pc = "exited" /\ dir_exists /\ nfiles = 0 /\ exit_code = Some(1)

\* C10: after the scan, newest_date is the latest of the publication dates
\* that parsed (None when none did), and a pubDate that does not parse is
\* not counted as missing.
NewestIsMaxParsed ==
    pc = "fresh" =>
        /\ IF ParsedInstants(items) = {}
           THEN newest_date = None
           ELSE newest_date # None /\ newest_date[1].t = SetMax(ParsedInstants(items))
        /\ missing_dates = CountLacking(items, "pubDate")

====
